---------------------------- MODULE Spec2Model ----------------------------
(***************************************************************************)
(* A model of pyscal_rdf_gui/graph.py: the RDFGraph object, which encodes  *)
(* a structure's data dictionary into a triple store (create_graph and the *)
(* add_* methods), annotates defects (add_gb, add_vacancy), extracts the   *)
(* subgraph of a sample (iterate_graph, get_sample) and decodes a sample   *)
(* back into a cell and an atom list (get_system_from_sample).             *)
(*                                                                         *)
(* Python values, rdflib terms and exceptions are records tagged by the    *)
(* field "kind".  Floats are counted in thousandths (3000 is 3.0).         *)
(***************************************************************************)
EXTENDS Integers, Sequences, FiniteSets, TLC

VARIABLES
    graph,              \* self.graph: the set of triples <<s, p, o>> of the store
    sample,             \* self.sample
    material,           \* self.material
    simulation_cell,    \* self.simulation_cell
    crystal_structure,  \* self.crystal_structure
    unit_cell,          \* self.unit_cell
    sysdict,            \* self.sysdict
    sgraph,             \* self.sgraph
    bnodes,             \* every BNode(...) the program has constructed, in order
    outcome,            \* the last call: its name, arguments, exception, return value
    ncalls              \* how many calls were made

vars == <<graph, sample, material, simulation_cell, crystal_structure, unit_cell,
          sysdict, sgraph, bnodes, outcome, ncalls>>

----------------------------------------------------------------------------
(* Bounds of the model *)

MaxCalls == 4
MaxCallsFull == 3
MaxAtoms == 2
RecursionLimit == 8
EnumerationOrders == 2

----------------------------------------------------------------------------
(* Python values *)

None == [kind |-> "NoneType"]
StrV(s) == [kind |-> "str", s |-> s]
IntV(i) == [kind |-> "int", i |-> i]
FloatV(m) == [kind |-> "float", m |-> m]
ListV(l) == [kind |-> "list", l |-> l]
DictV(d) == [kind |-> "dict", d |-> d]
Unset == [kind |-> "unset"]
Exc(e) == [kind |-> "exc", e |-> e]
IsExc(v) == v.kind = "exc"
NoExc == "ok"

Digit(d) == SubSeq("0123456789", d + 1, d + 1)

RECURSIVE IntToStr(_)
IntToStr(i) ==
    IF i < 0 THEN "-" \o IntToStr(0 - i)
    ELSE IF i < 10 THEN Digit(i)
    ELSE IntToStr(i \div 10) \o Digit(i % 10)

\* repr of a non-negative float held in thousandths: 3000 is "3.0", 500 is "0.5"
FloatToStr(m) ==
    LET frac == m % 1000
        d1 == frac \div 100
        d2 == (frac \div 10) % 10
        d3 == frac % 10
        fs == IF d3 # 0 THEN Digit(d1) \o Digit(d2) \o Digit(d3)
              ELSE IF d2 # 0 THEN Digit(d1) \o Digit(d2)
              ELSE Digit(d1)
    IN IntToStr(m \div 1000) \o "." \o fs

\* str(v), also the {v} of an f-string
PyStr(v) ==
    CASE v.kind = "NoneType" -> "None"
      [] v.kind = "str" -> v.s
      [] v.kind = "int" -> IntToStr(v.i)
      [] v.kind = "float" -> FloatToStr(v.m)

\* v[i] for a 0-based index i
Index(v, i) ==
    IF IsExc(v) THEN v
    ELSE IF v.kind # "list" THEN Exc("TypeError")
    ELSE IF i + 1 > Len(v.l) THEN Exc("IndexError")
    ELSE v.l[i + 1]

\* len(v)
PyLen(v) == IF v.kind = "list" THEN Len(v.l) ELSE 0
LenRaises(v) == v.kind # "list"

\* np.round(v, decimals=2) on a float held in thousandths (round half to even)
NpRound(v) ==
    IF IsExc(v) THEN v
    ELSE IF v.kind # "float" THEN Exc("TypeError")
    ELSE LET q == v.m \div 10
             r == v.m % 10
         IN FloatV(IF r < 5 THEN q * 10
                  ELSE IF r > 5 THEN (q + 1) * 10
                  ELSE IF q % 2 = 0 THEN q * 10 ELSE (q + 1) * 10)

----------------------------------------------------------------------------
(* rdflib terms *)

URIRef(id) == [kind |-> "URIRef", id |-> id]
CMSO(n) == URIRef("cmso:" \o n)
PLDO(n) == URIRef("pldo:" \o n)
PODO(n) == URIRef("podo:" \o n)
RDF_type == URIRef("rdf:type")

\* Literal(value, datatype=...): a Python object given as the value is kept as it is
Literal(v, dt) ==
    IF IsExc(v) THEN v ELSE [kind |-> "Literal", value |-> v, datatype |-> dt]

\* term.toPython() followed by str(): a literal gives its value, and itself (whose
\* text is "None") when the value is None; a BNode or URIRef gives itself
StrToPython(o) ==
    IF o.kind = "Literal" THEN PyStr(o.value) ELSE o.id

\* BNode(name): a fresh identity when name is None, else the label itself
BNode(st, name) ==
    IF name.kind = "NoneType"
    THEN [kind |-> "BNode", id |-> "N" \o IntToStr(Len(st.bnodes) + 1)]
    ELSE [kind |-> "BNode", id |-> PyStr(name)]

Alloc(st, b) == [st EXCEPT !.bnodes = Append(@, b)]

\* f'{name}<suffix>' when name is given, else None
UName(name, suffix) ==
    IF name.kind = "NoneType" THEN None ELSE StrV(PyStr(name) \o suffix)
UNamePre(prefix, name) ==
    IF name.kind = "NoneType" THEN None ELSE StrV(prefix \o PyStr(name))

----------------------------------------------------------------------------
(* The RDFGraph object *)

RDFGraphObj(g) == [kind |-> "RDFGraph", graph |-> g]

EmptyState ==
    [graph |-> {}, sample |-> None, material |-> None, simulation_cell |-> Unset,
     crystal_structure |-> Unset, unit_cell |-> Unset, sysdict |-> None,
     sgraph |-> None, bnodes |-> <<>>, exc |-> NoExc, order |-> 0, ret |-> None]

Raised(st) == st.exc # NoExc
Raise(st, e) == IF Raised(st) THEN st ELSE [st EXCEPT !.exc = e]

data(st, key) ==
    IF st.sysdict.kind # "NoneType"
    THEN IF key \in DOMAIN st.sysdict.d THEN st.sysdict.d[key] ELSE None
    ELSE None

\* Graph.add of rdflib asserts that subject, predicate and object are terms
IsTerm(x) == x.kind \in {"BNode", "URIRef", "Literal"}

add_unfiltered(st, triple) ==
    IF Raised(st) THEN st
    ELSE IF IsExc(triple[3]) THEN Raise(st, triple[3].e)
    ELSE IF ~IsTerm(triple[1]) THEN Raise(st, "AssertionError")
    ELSE [st EXCEPT !.graph = @ \cup {triple}]

add(st, triple) ==
    IF Raised(st) THEN st
    ELSE IF IsExc(triple[3]) THEN Raise(st, triple[3].e)
    ELSE IF StrToPython(triple[3]) # "None"
         THEN IF ~IsTerm(triple[1]) THEN Raise(st, "AssertionError")
              ELSE [st EXCEPT !.graph = @ \cup {triple}]
         ELSE st

\* a run of self.add(...) statements, in order
RECURSIVE AddAll(_, _)
AddAll(st, triples) ==
    IF triples = <<>> THEN st
    ELSE AddAll(add(st, Head(triples)), Tail(triples))


----------------------------------------------------------------------------
(* The encoder: create_graph and the methods it calls, in its order.  Each  *)
(* method returns the object as the method leaves it; a raised exception    *)
(* ends the method (and every later one) with the triples added so far.     *)

add_sample(st, name) ==
    LET sample_01 == BNode(st, name)
        s1 == add(Alloc(st, sample_01),
                  <<sample_01, RDF_type, CMSO("AtomicScaleSample")>>)
    IN IF Raised(st) THEN st
       ELSE IF Raised(s1) THEN s1
       ELSE [s1 EXCEPT !.sample = sample_01]

\* a variant that remembers the first Material only
add_material_first(st, name) ==
    LET material_01 == BNode(st, name)
        s1 == AddAll(Alloc(st, material_01),
                  << <<st.sample, CMSO("hasMaterial"), material_01>>,
                     <<material_01, RDF_type, CMSO("CrystallineMaterial")>> >>)
    IN IF Raised(st) THEN st
       ELSE IF Raised(s1) THEN s1
       ELSE IF st.material # None THEN s1
       ELSE [s1 EXCEPT !.material = material_01]

add_material(st, name) ==
    LET material_01 == BNode(st, name)
        s1 == AddAll(Alloc(st, material_01),
                  << <<st.sample, CMSO("hasMaterial"), material_01>>,
                     <<material_01, RDF_type, CMSO("CrystallineMaterial")>> >>)
    IN IF Raised(st) THEN st
       ELSE IF Raised(s1) THEN s1
       ELSE [s1 EXCEPT !.material = material_01]

Min(a, b) == IF a < b THEN a ELSE b

\* ["=".join([x, str(y)]) for x, y in zip(elements, ratios)]
ChemComp(st) ==
    LET e == data(st, "ChemicalCompositionElement")
        r == data(st, "ChemicalCompositionRatio")
    IN IF e.kind # "list" \/ r.kind # "list" THEN Exc("TypeError")
       ELSE LET n == Min(Len(e.l), Len(r.l))
            IN IF \E i \in 1..n : e.l[i].kind # "str" THEN Exc("TypeError")
               ELSE ListV([i \in 1..n |-> StrV(e.l[i].s \o "=" \o PyStr(r.l[i]))])

add_chemical_composition(st, name) ==
    LET chem_comp == ChemComp(st)
        chemical_composition_01 == BNode(st, name)
        s1 == AddAll(Alloc(st, chemical_composition_01),
                  << <<st.material, CMSO("hasComposition"), chemical_composition_01>>,
                     <<chemical_composition_01, RDF_type, CMSO("ChemicalComposition")>> >>
                  \o [x \in 1..PyLen(chem_comp) |->
                        <<chemical_composition_01, CMSO("hasElementRatio"),
                          Literal(chem_comp.l[x], "string")>>])
    IN IF Raised(st) THEN st
       ELSE IF IsExc(chem_comp) THEN Raise(st, chem_comp.e)
       ELSE s1

add_simulation_cell(st, name) ==
    LET simulation_cell_01 == BNode(st, name)
        s1 == AddAll(Alloc(st, simulation_cell_01),
                  << <<st.sample, CMSO("hasSimulationCell"), simulation_cell_01>>,
                     <<simulation_cell_01, RDF_type, CMSO("SimulationCell")>>,
                     <<simulation_cell_01, CMSO("hasVolume"),
                       Literal(NpRound(data(st, "CellVolume")), "float")>>,
                     <<st.sample, CMSO("hasNumberOfAtoms"),
                       Literal(data(st, "NumberOfAtoms"), "integer")>> >>)
    IN IF Raised(st) THEN st
       ELSE IF Raised(s1) THEN s1
       ELSE [s1 EXCEPT !.simulation_cell = simulation_cell_01]

\* A block of statements about one new node: the BNode(uname) call and the
\* self.add calls that follow it.  Nothing runs once an exception is raised.
NodeBlock(st, node, triples) ==
    IF Raised(st) THEN st ELSE AddAll(Alloc(st, node), triples)

CellLengthTriples(st, simulation_cell_length_01) ==
    << <<st.simulation_cell, CMSO("hasLength"), simulation_cell_length_01>>,
       <<simulation_cell_length_01, RDF_type, CMSO("SimulationCellLength")>>,
       <<simulation_cell_length_01, CMSO("hasLength_x"),
         Literal(data(st, "SimulationCellLengthX"), "float")>>,
       <<simulation_cell_length_01, CMSO("hasLength_y"),
         Literal(data(st, "SimulationCellLengthY"), "float")>>,
       <<simulation_cell_length_01, CMSO("hasLength_z"),
         Literal(data(st, "SimulationCellLengthZ"), "float")>> >>

CellVectorTriples(st, simulation_cell_vector, key) ==
    << <<st.simulation_cell, CMSO("hasVector"), simulation_cell_vector>>,
       <<simulation_cell_vector, RDF_type, CMSO("SimulationCellVector")>>,
       <<simulation_cell_vector, CMSO("hasComponent_x"),
         Literal(Index(data(st, key), 0), "float")>>,
       <<simulation_cell_vector, CMSO("hasComponent_y"),
         Literal(Index(data(st, key), 1), "float")>>,
       <<simulation_cell_vector, CMSO("hasComponent_z"),
         Literal(Index(data(st, key), 2), "float")>> >>

CellAngleTriples(st, simulation_cell_angle_01) ==
    << <<st.simulation_cell, CMSO("hasAngle"), simulation_cell_angle_01>>,
       <<simulation_cell_angle_01, RDF_type, CMSO("SimulationCellAngle")>>,
       <<simulation_cell_angle_01, CMSO("hasAngle_alpha"),
         Literal(data(st, "SimulationCellAngleAlpha"), "float")>>,
       <<simulation_cell_angle_01, CMSO("hasAngle_beta"),
         Literal(data(st, "SimulationCellAngleBeta"), "float")>>,
       <<simulation_cell_angle_01, CMSO("hasAngle_gamma"),
         Literal(data(st, "SimulationCellAngleGamma"), "float")>> >>

CellLengthBlock(st, uname) ==
    NodeBlock(st, BNode(st, uname), CellLengthTriples(st, BNode(st, uname)))
CellVectorBlock(st, uname, key) ==
    NodeBlock(st, BNode(st, uname), CellVectorTriples(st, BNode(st, uname), key))
CellAngleBlock(st, uname) ==
    NodeBlock(st, BNode(st, uname), CellAngleTriples(st, BNode(st, uname)))

\* the blocks in the method's order: Length, Vector01, Vector02, Vector03, Angle
add_simulation_cell_properties(st, name) ==
    CellAngleBlock(
        CellVectorBlock(
            CellVectorBlock(
                CellVectorBlock(
                    CellLengthBlock(st, UName(name, "Length")),
                    UName(name, "Vector01"), "SimulationCellVectorA"),
                UName(name, "Vector02"), "SimulationCellVectorB"),
            UName(name, "Vector03"), "SimulationCellVectorC"),
        UName(name, "Angle"))

add_crystal_structure(st, name) ==
    LET crystal_structure_01 == BNode(st, name)
        s1 == AddAll(Alloc(st, crystal_structure_01),
                  << <<st.material, CMSO("hasStructure"), crystal_structure_01>>,
                     <<crystal_structure_01, RDF_type, CMSO("CrystalStructure")>>,
                     <<crystal_structure_01, CMSO("hasAltName"),
                       Literal(data(st, "CrystalStructureName"), "string")>> >>)
    IN IF Raised(st) THEN st
       ELSE IF Raised(s1) THEN s1
       ELSE [s1 EXCEPT !.crystal_structure = crystal_structure_01]

add_space_group(st, name) ==
    LET space_group_01 == BNode(st, name)
    IN IF Raised(st) THEN st
       ELSE AddAll(Alloc(st, space_group_01),
              << <<st.crystal_structure, CMSO("hasSpaceGroup"), space_group_01>>,
                 <<space_group_01, RDF_type, CMSO("SpaceGroup")>>,
                 <<space_group_01, CMSO("hasSpaceGroupSymbol"),
                   Literal(data(st, "SpaceGroupSymbol"), "string")>>,
                 <<space_group_01, CMSO("hasSpaceGroupNumber"),
                   Literal(data(st, "SpaceGroupNumber"), "integer")>> >>)

UnitCellBlock(st, unit_cell_01) ==
    LET s1 == NodeBlock(st, unit_cell_01,
                  << <<st.crystal_structure, CMSO("hasUnitCell"), unit_cell_01>>,
                     <<unit_cell_01, RDF_type, CMSO("UnitCell")>> >>)
    IN IF Raised(s1) THEN s1 ELSE [s1 EXCEPT !.unit_cell = unit_cell_01]

BravaisTriples(st, bravaislattice) ==
    << <<st.unit_cell, CMSO("hasLattice"), bravaislattice>>,
       <<bravaislattice, RDF_type, CMSO("BravaisLattice")>>,
       <<bravaislattice, CMSO("hasLatticeSystem"),
         Literal(data(st, "BravaisLattice"), "string")>> >>

BravaisBlock(st, uname) ==
    NodeBlock(st, BNode(st, uname), BravaisTriples(st, BNode(st, uname)))

\* a mislabelled variant: the Bravais lattice node gets the unit cell's own label
add_unit_cell_samelabel(st, name) ==
    BravaisBlock(UnitCellBlock(st, BNode(st, name)), name)

add_unit_cell(st, name) ==
    BravaisBlock(UnitCellBlock(st, BNode(st, name)), UNamePre("Bravais", name))

LatticeAngleValue == 90

LatticeParameterTriples(st, lattice_parameter_01) ==
    << <<st.unit_cell, CMSO("hasLatticeParamter"), lattice_parameter_01>>,
       <<lattice_parameter_01, RDF_type, CMSO("LatticeParameter")>>,
       <<lattice_parameter_01, CMSO("hasLength_x"),
         Literal(data(st, "LatticeParameter"), "float")>>,
       <<lattice_parameter_01, CMSO("hasLength_y"),
         Literal(data(st, "LatticeParameter"), "float")>>,
       <<lattice_parameter_01, CMSO("hasLength_z"),
         Literal(data(st, "LatticeParameter"), "float")>> >>

LatticeAngleTriples(st, lattice_angle_01) ==
    << <<st.unit_cell, CMSO("hasAngle"), lattice_angle_01>>,
       <<lattice_angle_01, RDF_type, CMSO("LatticeAngle")>>,
       <<lattice_angle_01, CMSO("hasAngle_alpha"), Literal(IntV(LatticeAngleValue), "float")>>,
       <<lattice_angle_01, CMSO("hasAngle_beta"), Literal(IntV(LatticeAngleValue), "float")>>,
       <<lattice_angle_01, CMSO("hasAngle_gamma"), Literal(IntV(LatticeAngleValue), "float")>> >>

LatticeParameterBlock(st, uname) ==
    NodeBlock(st, BNode(st, uname), LatticeParameterTriples(st, BNode(st, uname)))
LatticeAngleBlock(st, uname) ==
    NodeBlock(st, BNode(st, uname), LatticeAngleTriples(st, BNode(st, uname)))

add_lattice_properties(st, name) ==
    LatticeAngleBlock(LatticeParameterBlock(st, UName(name, "LatticeParameter")),
                      UName(name, "LatticeAngle"))

\* str(v) as an expression: an exception raised inside it goes through
StrOf(v) == IF IsExc(v) THEN v ELSE StrV(PyStr(v))

AtomTriples(st, atom) ==
    << <<st.sample, CMSO("hasAtom"), atom>>,
       <<atom, RDF_type, CMSO("Atom")>> >>

PositionTriples(st, atom, position, x) ==
    << <<atom, CMSO("hasPositionVector"), position>>,
       <<position, RDF_type, CMSO("PositionVector")>>,
       <<position, CMSO("hasComponent_x"),
         Literal(Index(Index(data(st, "Positions"), x), 0), "float")>>,
       <<position, CMSO("hasComponent_y"),
         Literal(Index(Index(data(st, "Positions"), x), 1), "float")>>,
       <<position, CMSO("hasComponent_z"),
         Literal(Index(Index(data(st, "Positions"), x), 2), "float")>> >>

\* a variant that writes the symbol of the first atom on every element node
ElementTriples_first(st, atom, element, x) ==
    << <<atom, CMSO("hasElement"), element>>,
       <<element, RDF_type, CMSO("Element")>>,
       <<element, CMSO("hasSymbol"),
         Literal(StrOf(Index(data(st, "Element"), 0)), "string")>>,
       <<atom, CMSO("hasCoordinationNumber"),
         Literal(Index(data(st, "Coordination"), x), "integer")>> >>

ElementTriples(st, atom, element, x) ==
    << <<atom, CMSO("hasElement"), element>>,
       <<element, RDF_type, CMSO("Element")>>,
       <<element, CMSO("hasSymbol"),
         Literal(StrOf(Index(data(st, "Element"), x)), "string")>>,
       <<atom, CMSO("hasCoordinationNumber"),
         Literal(Index(data(st, "Coordination"), x), "integer")>> >>

PositionBlock(st, atom, uname, x) ==
    NodeBlock(st, BNode(st, uname), PositionTriples(st, atom, BNode(st, uname), x))
ElementBlock(st, atom, uname, x) ==
    NodeBlock(st, BNode(st, uname), ElementTriples(st, atom, BNode(st, uname), x))

\* the body of add_atoms' loop for the 0-based index x: the atom, its position,
\* its element and its coordination number
AtomBlock(st, name, x) ==
    LET atom == BNode(st, UName(name, "_" \o IntToStr(x)))
    IN ElementBlock(
           PositionBlock(NodeBlock(st, atom, AtomTriples(st, atom)),
                         atom, UName(name, "_" \o IntToStr(x) \o "_Position"), x),
           atom, UName(name, "_" \o IntToStr(x) \o "_Element"), x)

\* the loop of add_atoms from index x on, over range(n)
RECURSIVE AtomLoop(_, _, _, _)
AtomLoop(st, name, x, n) ==
    IF x >= n \/ Raised(st) THEN st
    ELSE AtomLoop(AtomBlock(st, name, x), name, x + 1, n)

add_atoms(st, name) ==
    IF Raised(st) THEN st
    ELSE IF LenRaises(data(st, "Positions")) THEN Raise(st, "TypeError")
    ELSE AtomLoop(st, name, 0, PyLen(data(st, "Positions")))

\* the name_list of create_graph
name_list(names, name_index) ==
    IF names
    THEN << StrV(PyStr(name_index) \o "_Sample"), StrV(PyStr(name_index) \o "_Material"),
            StrV(PyStr(name_index) \o "_ChemicalComposition"),
            StrV(PyStr(name_index) \o "_SimulationCell"),
            StrV(PyStr(name_index) \o "_SimulationCell"),
            StrV(PyStr(name_index) \o "_CrystalStructure"),
            StrV(PyStr(name_index) \o "_SpaceGroup"), StrV(PyStr(name_index) \o "_UnitCell"),
            StrV(PyStr(name_index) \o "_UnitCell"), StrV(PyStr(name_index) \o "_Atom") >>
    ELSE << None, None, None, None, None, None, None, None, None, None >>

create_graph(st, names, name_index) ==
    LET nl == name_list(names, name_index)
        s1 == add_sample(st, nl[1])
        s2 == add_material(s1, nl[2])
        s3 == add_chemical_composition(s2, nl[3])
        s4 == add_simulation_cell(s3, nl[4])
        s5 == add_simulation_cell_properties(s4, nl[5])
        s6 == add_crystal_structure(s5, nl[6])
        s7 == add_space_group(s6, nl[7])
        s8 == add_unit_cell(s7, nl[8])
        s9 == add_lattice_properties(s8, nl[9])
    IN add_atoms(s9, nl[10])

----------------------------------------------------------------------------
(* Defect annotation *)

\* a variant that files every unknown tag under the plain boundary class
GBTypeClass_default(gbtype) ==
    CASE gbtype.kind = "NoneType" -> "GrainBoundary"
      [] gbtype.kind = "str" /\ gbtype.s = "Twist" -> "TwistBoundary"
      [] gbtype.kind = "str" /\ gbtype.s = "Tilt" -> "TiltBoundary"
      [] gbtype.kind = "str" /\ gbtype.s = "Symmetric Tilt" -> "SymmetricTiltBoundary"
      [] gbtype.kind = "str" /\ gbtype.s = "Mixed" -> "MixedBoundary"
      [] OTHER -> "GrainBoundary"

GBTypeClass(gbtype) ==
    CASE gbtype.kind = "NoneType" -> "GrainBoundary"
      [] gbtype.kind = "str" /\ gbtype.s = "Twist" -> "TwistBoundary"
      [] gbtype.kind = "str" /\ gbtype.s = "Tilt" -> "TiltBoundary"
      [] gbtype.kind = "str" /\ gbtype.s = "Symmetric Tilt" -> "SymmetricTiltBoundary"
      [] gbtype.kind = "str" /\ gbtype.s = "Mixed" -> "MixedBoundary"
      [] OTHER -> ""

\* the hasDefect edge, the type triple of a mapped tag, the sigma value
PlaneDefectBlock(st, plane_defect_01, gb_dict) ==
    LET s1 == NodeBlock(st, plane_defect_01,
                  << <<st.material, CMSO("hasDefect"), plane_defect_01>> >>)
        cls == GBTypeClass(gb_dict["GBType"])
    IN add(IF cls # "" THEN add(s1, <<plane_defect_01, RDF_type, PLDO(cls)>>) ELSE s1,
           <<plane_defect_01, PLDO("hasSigmaValue"), Literal(gb_dict["sigma"], "integer")>>)

GBPlaneTriples(plane_defect_01, gb_plane_01, gb_dict) ==
    << <<plane_defect_01, PLDO("hasGBPlane"), gb_plane_01>>,
       <<gb_plane_01, RDF_type, PLDO("GrainBoundaryPlane")>>,
       <<gb_plane_01, PLDO("hasMillerIndices"), Literal(gb_dict["GBPlane"], "string")>> >>

RotationAxisTriples(plane_defect_01, rotation_axis_01, gb_dict) ==
    << <<plane_defect_01, PLDO("hasRotationAxis"), rotation_axis_01>>,
       <<rotation_axis_01, RDF_type, PLDO("RotationAxis")>>,
       <<rotation_axis_01, PLDO("hasComponentX"),
         Literal(Index(gb_dict["RotationAxis"], 0), "float")>>,
       <<rotation_axis_01, PLDO("hasComponentY"),
         Literal(Index(gb_dict["RotationAxis"], 1), "float")>>,
       <<rotation_axis_01, PLDO("hasComponentZ"),
         Literal(Index(gb_dict["RotationAxis"], 2), "float")>> >>

MisorientationTriples(plane_defect_01, misorientation_angle_01, gb_dict) ==
    << <<plane_defect_01, PLDO("hasMisorientationAngle"), misorientation_angle_01>>,
       <<misorientation_angle_01, RDF_type, PLDO("MisorientationAngle")>>,
       <<misorientation_angle_01, PLDO("hasAngle"),
         Literal(gb_dict["MisorientationAngle"], "float")>> >>

GBPlaneBlock(st, plane_defect_01, uname, gb_dict) ==
    NodeBlock(st, BNode(st, uname), GBPlaneTriples(plane_defect_01, BNode(st, uname), gb_dict))
RotationAxisBlock(st, plane_defect_01, uname, gb_dict) ==
    NodeBlock(st, BNode(st, uname),
              RotationAxisTriples(plane_defect_01, BNode(st, uname), gb_dict))
MisorientationBlock(st, plane_defect_01, uname, gb_dict) ==
    NodeBlock(st, BNode(st, uname),
              MisorientationTriples(plane_defect_01, BNode(st, uname), gb_dict))

add_gb(st, gb_dict, name) ==
    LET plane_defect_01 == BNode(st, name)
    IN MisorientationBlock(
           RotationAxisBlock(
               GBPlaneBlock(PlaneDefectBlock(st, plane_defect_01, gb_dict),
                            plane_defect_01, UName(name, "GrainBoundaryPlane"), gb_dict),
               plane_defect_01, UName(name, "RotationAxis"), gb_dict),
           plane_defect_01, UName(name, "MisorientationAngle"), gb_dict)

add_vacancy(st, concentration, number, name) ==
    LET vacancy_01 == BNode(st, name)
        s1 == AddAll(Alloc(st, vacancy_01),
                  << <<st.material, CMSO("hasDefect"), vacancy_01>>,
                     <<vacancy_01, RDF_type, PODO("Vacancy")>>,
                     <<vacancy_01, PODO("hasVacancyConcentration"),
                       Literal(concentration, "float")>> >>)
    IN IF Raised(s1) THEN s1
       ELSE IF number.kind # "NoneType"
       THEN add(s1, <<vacancy_01, PODO("hasNumberOfVacancy"), Literal(number, "integer")>>)
       ELSE s1

----------------------------------------------------------------------------
(* The triple store's queries.  The store is a set; the order in which it   *)
(* enumerates the triples matching a pattern is the store's own, and st.order *)
(* selects it: order k enumerates a set in its k-th permutation.             *)

RECURSIVE SetToSeq(_)
SetToSeq(S) ==
    IF S = {} THEN <<>>
    ELSE LET x == CHOOSE y \in S : TRUE IN <<x>> \o SetToSeq(S \ {x})

RECURSIVE Enumerate(_, _)
Enumerate(S, k) ==
    IF S = {} THEN <<>>
    ELSE LET n == Cardinality(S)
             x == SetToSeq(S)[(k % n) + 1]
         IN <<x>> \o Enumerate(S \ {x}, k \div n)

\* Graph.triples((s, p, o)): None matches anything
Triples(g, pat) ==
    {t \in g : /\ (pat[1] = None \/ t[1] = pat[1])
               /\ (pat[2] = None \/ t[2] = pat[2])
               /\ (pat[3] = None \/ t[3] = pat[3])}

\* Graph.value(subject, predicate): the object of the first matching triple; None
\* when there is none, and when the subject is None too (two parts unbound)
Value(g, subject, predicate, k) ==
    IF subject = None THEN None
    ELSE LET m == Triples(g, <<subject, predicate, None>>)
         IN IF m = {} THEN None ELSE Enumerate(m, k)[1][3]

\* a lenient variant: a missing value decodes to None instead of raising
ToPython_lenient(x) ==
    IF IsExc(x) THEN x
    ELSE IF x.kind = "Literal" /\ x.value # None THEN x.value
    ELSE x

\* x.toPython(): None has no such method
ToPython(x) ==
    IF IsExc(x) THEN x
    ELSE IF x.kind = "NoneType" THEN Exc("AttributeError")
    ELSE IF x.kind = "Literal" /\ x.value # None THEN x.value
    ELSE x

----------------------------------------------------------------------------
(* The subgraph extractor *)

iterate_graph_shallow(st, item, create_new_graph, depth) ==
    LET s0 == IF create_new_graph THEN [st EXCEPT !.sgraph = RDFGraphObj({})] ELSE st
    IN [s0 EXCEPT !.sgraph.graph = @ \cup Triples(st.graph, <<item, None, None>>)]

RECURSIVE iterate_graph(_, _, _, _)
RECURSIVE IterateTriples(_, _, _)

\* the for loop of iterate_graph over the triples still to visit
IterateTriples(st, triples, depth) ==
    IF triples = <<>> \/ Raised(st) THEN st
    ELSE LET triple == Head(triples)
             s1 == IF st.sgraph.kind # "RDFGraph" THEN Raise(st, "AttributeError")
                   ELSE [st EXCEPT !.sgraph.graph = @ \cup {triple}]
         IN IterateTriples(iterate_graph(s1, triple[3], FALSE, depth + 1),
                           Tail(triples), depth)

\* depth is the depth of the call; one deeper than RecursionLimit raises
iterate_graph(st, item, create_new_graph, depth) ==
    IF Raised(st) THEN st
    ELSE IF depth > RecursionLimit THEN Raise(st, "RecursionError")
    ELSE LET s0 == IF create_new_graph THEN [st EXCEPT !.sgraph = RDFGraphObj({})]
                   ELSE st
         IN IterateTriples(s0, Enumerate(Triples(st.graph, <<item, None, None>>), st.order),
                           depth)

get_sample_keep(st, sample_id, no_atoms) ==
    LET s1 == iterate_graph(st, sample_id, st.sgraph.kind # "RDFGraph", 1)
    IN IF Raised(s1) THEN s1 ELSE [s1 EXCEPT !.ret = s1.sgraph]

get_sample(st, sample_id, no_atoms) ==
    LET s1 == iterate_graph(st, sample_id, TRUE, 1)
        na == ToPython(Value(s1.sgraph.graph, sample_id, CMSO("hasNumberOfAtoms"), st.order))
    IN IF Raised(s1) THEN s1
       ELSE IF no_atoms
       THEN IF IsExc(na) THEN Raise(s1, na.e)
            ELSE [s1 EXCEPT !.ret = <<s1.sgraph, na>>]
       ELSE [s1 EXCEPT !.ret = s1.sgraph]

----------------------------------------------------------------------------
(* The decoder *)

\* the three appends of the cell-vector loop, for the triples still to visit;
\* cv is cell_vectors
RECURSIVE CellVectorLoop(_, _, _)
CellVectorLoop(st, triples, cv) ==
    IF IsExc(cv) \/ triples = <<>> THEN cv
    ELSE LET s == Head(triples)
             x == ToPython(Value(st.graph, s[3], CMSO("hasComponent_x"), st.order))
             y == ToPython(Value(st.graph, s[3], CMSO("hasComponent_y"), st.order))
             z == ToPython(Value(st.graph, s[3], CMSO("hasComponent_z"), st.order))
         IN CellVectorLoop(st, Tail(triples),
                IF IsExc(x) THEN x ELSE IF IsExc(y) THEN y ELSE IF IsExc(z) THEN z
                ELSE ListV(<<Append(cv.l[1], x), Append(cv.l[2], y), Append(cv.l[3], z)>>))

\* the atom loop; acc is [positions, species]
RECURSIVE AtomDecodeLoop(_, _, _)
AtomDecodeLoop(st, triples, acc) ==
    IF IsExc(acc) \/ triples = <<>> THEN acc
    ELSE LET atom == Head(triples)
             vector == Value(st.graph, atom[3], CMSO("hasPositionVector"), st.order)
             x == ToPython(Value(st.graph, vector, CMSO("hasComponent_x"), st.order))
             y == ToPython(Value(st.graph, vector, CMSO("hasComponent_y"), st.order))
             z == ToPython(Value(st.graph, vector, CMSO("hasComponent_z"), st.order))
             element == Value(st.graph, atom[3], CMSO("hasElement"), st.order)
             sp == ToPython(Value(st.graph, element, CMSO("hasSymbol"), st.order))
         IN AtomDecodeLoop(st, Tail(triples),
                IF IsExc(x) THEN x ELSE IF IsExc(y) THEN y ELSE IF IsExc(z) THEN z
                ELSE IF IsExc(sp) THEN sp
                ELSE [kind |-> "atoms", positions |-> Append(acc.positions, <<x, y, z>>),
                      species |-> Append(acc.species, sp)])

get_system_from_sample(st, sample_id) ==
    LET simcell == Value(st.graph, sample_id, CMSO("hasSimulationCell"), st.order)
        cell_vectors ==
            CellVectorLoop(st,
                Enumerate(Triples(st.graph, <<simcell, CMSO("hasVector"), None>>), st.order),
                ListV(<< <<>>, <<>>, <<>> >>))
        atoms ==
            AtomDecodeLoop(st,
                Enumerate(Triples(st.graph, <<sample_id, CMSO("hasAtom"), None>>), st.order),
                [kind |-> "atoms", positions |-> <<>>, species |-> <<>>])
    IN IF IsExc(cell_vectors) THEN Raise(st, cell_vectors.e)
       ELSE IF IsExc(atoms) THEN Raise(st, atoms.e)
       ELSE [st EXCEPT !.ret = [kind |-> "System", box |-> cell_vectors.l,
                                positions |-> atoms.positions,
                                species |-> atoms.species]]

----------------------------------------------------------------------------
(* Inputs: the data dictionaries convert_to_dict hands over, the defect     *)
(* descriptors and the names callers give.                                   *)

Vec(x, y, z) == ListV(<<FloatV(x), FloatV(y), FloatV(z)>>)

\* a fully populated dictionary for a cell <<A, B, C>> and atoms <<[el, pos, cn], ...>>
Record(cell, atoms) ==
    DictV([key \in {"ChemicalCompositionElement", "ChemicalCompositionRatio", "CellVolume",
                    "NumberOfAtoms", "SimulationCellLengthX", "SimulationCellLengthY",
                    "SimulationCellLengthZ", "SimulationCellVectorA",
                    "SimulationCellVectorB", "SimulationCellVectorC",
                    "SimulationCellAngleAlpha", "SimulationCellAngleBeta",
                    "SimulationCellAngleGamma", "CrystalStructureName", "SpaceGroupSymbol",
                    "SpaceGroupNumber", "BravaisLattice", "LatticeParameter", "Positions",
                    "Element", "Coordination"} |->
        CASE key = "ChemicalCompositionElement" -> ListV(<<StrV("Al"), StrV("Fe")>>)
          [] key = "ChemicalCompositionRatio" -> ListV(<<FloatV(500), FloatV(500)>>)
          [] key = "CellVolume" -> FloatV(27125)
          [] key = "NumberOfAtoms" -> IntV(Len(atoms))
          [] key = "SimulationCellLengthX" -> FloatV(3000)
          [] key = "SimulationCellLengthY" -> FloatV(3010)
          [] key = "SimulationCellLengthZ" -> FloatV(3020)
          [] key = "SimulationCellVectorA" -> cell[1]
          [] key = "SimulationCellVectorB" -> cell[2]
          [] key = "SimulationCellVectorC" -> cell[3]
          [] key = "SimulationCellAngleAlpha" -> FloatV(90000)
          [] key = "SimulationCellAngleBeta" -> FloatV(80000)
          [] key = "SimulationCellAngleGamma" -> FloatV(70000)
          [] key = "CrystalStructureName" -> StrV("bcc")
          [] key = "SpaceGroupSymbol" -> StrV("Im-3m")
          [] key = "SpaceGroupNumber" -> IntV(229)
          [] key = "BravaisLattice" -> StrV("cI")
          [] key = "LatticeParameter" -> FloatV(2870)
          [] key = "Positions" -> ListV([i \in 1..Len(atoms) |-> atoms[i].pos])
          [] key = "Element" -> ListV([i \in 1..Len(atoms) |-> atoms[i].el])
          [] key = "Coordination" -> ListV([i \in 1..Len(atoms) |-> atoms[i].cn])])

Fields == DOMAIN Record(<<Vec(0, 0, 0), Vec(0, 0, 0), Vec(0, 0, 0)>>, <<>>).d

\* the dictionary with the field holding no value, and with the key itself missing
Without(rec, field) == DictV([rec.d EXCEPT ![field] = None])
Lacking(rec, field) == DictV([key \in DOMAIN rec.d \ {field} |-> rec.d[key]])

AtomAl == [el |-> StrV("Al"), pos |-> Vec(500, 500, 500), cn |-> IntV(12)]
AtomFe == [el |-> StrV("Fe"), pos |-> Vec(0, 250, 750), cn |-> IntV(8)]

RECURSIVE SeqsUpTo(_, _)
SeqsUpTo(S, n) ==
    IF n = 0 THEN {<<>>}
    ELSE LET shorter == SeqsUpTo(S, n - 1)
         IN shorter \cup {Append(q, x) : q \in shorter, x \in S}

AtomLists == SeqsUpTo({AtomAl, AtomFe}, MaxAtoms) \ {<<>>}

CubicCell == <<Vec(3000, 0, 0), Vec(0, 3000, 0), Vec(0, 0, 3000)>>
TriclinicCell == <<Vec(3000, 0, 0), Vec(1000, 3000, 0), Vec(500, 250, 3000)>>

BaseRecord == Record(TriclinicCell, <<AtomAl, AtomFe>>)

NameIndices == {StrV("01"), StrV("02")}

GbDict(gbtype) ==
    [key \in {"GBType", "sigma", "GBPlane", "RotationAxis", "MisorientationAngle"} |->
        CASE key = "GBType" -> gbtype
          [] key = "sigma" -> IntV(5)
          [] key = "GBPlane" -> StrV("3 -1 0")
          [] key = "RotationAxis" -> ListV(<<IntV(0), IntV(0), IntV(1)>>)
          [] key = "MisorientationAngle" -> FloatV(36870)]

GBTypes == {None, StrV("Twist"), StrV("Tilt"), StrV("Symmetric Tilt"), StrV("Mixed"),
            StrV("SymmetricTilt")}

\* the descriptors of every tag, and one whose sigma holds no value
GbDicts == {GbDict(t) : t \in GBTypes} \cup {[GbDict(None) EXCEPT !["sigma"] = None]}

----------------------------------------------------------------------------
(* The state machine *)

Self(k) ==
    [graph |-> graph, sample |-> sample, material |-> material,
     simulation_cell |-> simulation_cell, crystal_structure |-> crystal_structure,
     unit_cell |-> unit_cell, sysdict |-> sysdict, sgraph |-> sgraph,
     bnodes |-> bnodes, exc |-> NoExc, order |-> k, ret |-> None]

\* the object as the call leaves it, and the record of the call
Commit(s, op, args) ==
    /\ graph' = s.graph
    /\ sample' = s.sample
    /\ material' = s.material
    /\ simulation_cell' = s.simulation_cell
    /\ crystal_structure' = s.crystal_structure
    /\ unit_cell' = s.unit_cell
    /\ sysdict' = s.sysdict
    /\ sgraph' = s.sgraph
    /\ bnodes' = s.bnodes
    /\ outcome' = [op |-> op, args |-> args, exc |-> s.exc, ret |-> s.ret,
                   mark |-> Len(bnodes), pre |-> [graph |-> graph, sgraph |-> sgraph]]
    /\ ncalls' = ncalls + 1

\* no call made yet
NoCall ==
    [op |-> "init", args |-> <<>>, exc |-> NoExc, ret |-> None, mark |-> 0,
     pre |-> [graph |-> {}, sgraph |-> None]]

Init ==
    /\ graph = EmptyState.graph
    /\ sample = EmptyState.sample
    /\ material = EmptyState.material
    /\ simulation_cell = EmptyState.simulation_cell
    /\ crystal_structure = EmptyState.crystal_structure
    /\ unit_cell = EmptyState.unit_cell
    /\ sysdict = EmptyState.sysdict
    /\ sgraph = EmptyState.sgraph
    /\ bnodes = EmptyState.bnodes
    /\ outcome = NoCall
    /\ ncalls = 0

\* the samples property
Samples(g) == {x[1] : x \in Triples(g, <<None, RDF_type, CMSO("AtomicScaleSample")>>)}

\* the n_samples property
n_samples(g) == Cardinality(Triples(g, <<None, RDF_type, CMSO("AtomicScaleSample")>>))

\* process_structure(structure), convert_to_dict giving the dictionary r
process_structure(st, r) == [st EXCEPT !.sysdict = r]

add_structure_to_graph(st, r, names, name_index) ==
    LET s1 == process_structure(st, r)
        idx == IF name_index = None THEN IntV(n_samples(s1.graph) + 1) ELSE name_index
    IN create_graph(s1, names, idx)

ProcessStructure(r) ==
    /\ ncalls < MaxCalls
    /\ Commit(process_structure(Self(0), r), "process_structure", <<r>>)

AddStructureToGraph(r, names, name_index) ==
    /\ ncalls < MaxCalls
    /\ Commit(add_structure_to_graph(Self(0), r, names, name_index),
              "add_structure_to_graph", <<r, names, name_index>>)

CreateGraph(names, name_index) ==
    /\ ncalls < MaxCalls
    /\ Commit(create_graph(Self(0), names, name_index), "create_graph",
              <<names, name_index>>)

AddGb(gb_dict, name) ==
    /\ ncalls < MaxCalls
    /\ Commit(add_gb(Self(0), gb_dict, name), "add_gb", <<gb_dict, name>>)

AddVacancy(concentration, number, name) ==
    /\ ncalls < MaxCalls
    /\ Commit(add_vacancy(Self(0), concentration, number, name), "add_vacancy",
              <<concentration, number, name>>)

GetSample(sample_id, no_atoms, k) ==
    /\ ncalls < MaxCalls
    /\ Commit(get_sample(Self(k), sample_id, no_atoms), "get_sample",
              <<sample_id, no_atoms>>)

GetSystemFromSample(sample_id, k) ==
    /\ ncalls < MaxCalls
    /\ Commit(get_system_from_sample(Self(k), sample_id), "get_system_from_sample",
              <<sample_id>>)

Orders == 0..(EnumerationOrders - 1)
\* a node that is the subject of no triple
Stranger == [kind |-> "BNode", id |-> "stranger"]

StructRecords == {Record(CubicCell, <<AtomAl>>), Without(BaseRecord, "NumberOfAtoms")}
StructArgs == {<<FALSE, None>>, <<TRUE, None>>, <<TRUE, StrV("2")>>}
CreateArgs == {<<FALSE, StrV("01")>>, <<TRUE, StrV("01")>>}
\* every descriptor added without a name, one added under a name
GbArgs == {<<gb, None>> : gb \in GbDicts} \cup {<<GbDict(StrV("Twist")), StrV("GB")>>}
VacancyArgs == {<<None, None>>, <<IntV(2), None>>, <<IntV(2), StrV("Vacancy")>>}

\* every operation with all its inputs, explored to MaxCallsFull calls
Next ==
    \/ \E r \in StructRecords, a \in StructArgs :
          ncalls < MaxCallsFull /\ AddStructureToGraph(r, a[1], a[2])
    \/ \E a \in CreateArgs : ncalls < MaxCallsFull /\ CreateGraph(a[1], a[2])
    \/ \E a \in GbArgs : ncalls < MaxCallsFull /\ AddGb(a[1], a[2])
    \/ \E a \in VacancyArgs :
          ncalls < MaxCallsFull /\ AddVacancy(FloatV(100), a[1], a[2])
    \/ \E e \in Samples(graph), no_atoms \in BOOLEAN, k \in Orders :
          ncalls < MaxCallsFull /\ GetSample(e, no_atoms, k)
    \/ \E e \in Samples(graph), k \in Orders :
          ncalls < MaxCallsFull /\ GetSystemFromSample(e, k)

Spec == Init /\ [][Next]_vars

----------------------------------------------------------------------------
(* The codec on one sample: a dictionary is processed and encoded into the  *)
(* empty store, then the sample is extracted or decoded.                     *)

Cells == {CubicCell, TriclinicCell}

CodecRecords ==
    {Record(cell, atoms) : cell \in Cells, atoms \in AtomLists}
    \cup {Without(BaseRecord, f) : f \in Fields}
    \cup {Lacking(BaseRecord, f) : f \in Fields}

CodecArgs == {<<FALSE, StrV("01")>>} \cup {<<TRUE, i>> : i \in NameIndices}

NextCodec ==
    \/ \E r \in CodecRecords : graph = {} /\ sysdict = None /\ ProcessStructure(r)
    \/ \E a \in CodecArgs : graph = {} /\ CreateGraph(a[1], a[2])
    \/ \E e \in Samples(graph), no_atoms \in BOOLEAN, k \in Orders :
          GetSample(e, no_atoms, k)
    \/ \E e \in Samples(graph), k \in Orders : GetSystemFromSample(e, k)

SpecCodec == Init /\ [][NextCodec]_vars

----------------------------------------------------------------------------
(* Stores loaded from a graph file (RDFGraph(graph_file)): any triples at   *)
(* all, cycles and damaged samples included; they are extracted and decoded. *)
(* Parsing the file is the object's first call on its store.                 *)

NodeA == [kind |-> "BNode", id |-> "A"]
NodeB == [kind |-> "BNode", id |-> "B"]
NodeC == [kind |-> "BNode", id |-> "C"]
NodeD == [kind |-> "BNode", id |-> "D"]
NodeE == [kind |-> "BNode", id |-> "E"]
LinkP == URIRef("ex:p")

LinkUniverse ==
    { <<NodeA, LinkP, NodeB>>, <<NodeA, LinkP, NodeC>>, <<NodeB, LinkP, NodeD>>,
      <<NodeC, LinkP, NodeD>>, <<NodeD, LinkP, Literal(StrV("v"), "string")>>,
      <<NodeB, LinkP, NodeA>>, <<NodeD, LinkP, NodeD>>,
      <<NodeE, LinkP, Literal(StrV("w"), "string")>> }

LinkStores == SUBSET LinkUniverse

\* an encoded two-atom sample, whole or with one triple lost
EncodedStore ==
    create_graph([EmptyState EXCEPT !.sysdict = BaseRecord], TRUE, StrV("01")).graph
DamagedStores == {EncodedStore} \cup {EncodedStore \ {t} : t \in EncodedStore}

InitLoaded ==
    /\ graph \in LinkStores \cup DamagedStores
    /\ sample = EmptyState.sample
    /\ material = EmptyState.material
    /\ simulation_cell = EmptyState.simulation_cell
    /\ crystal_structure = EmptyState.crystal_structure
    /\ unit_cell = EmptyState.unit_cell
    /\ sysdict = EmptyState.sysdict
    /\ sgraph = EmptyState.sgraph
    /\ bnodes = EmptyState.bnodes
    /\ outcome = [NoCall EXCEPT !.op = "parse"]
    /\ ncalls = 1

EntryNodes == {NodeA, NodeD, NodeE, Stranger}

NextLoaded ==
    \/ \E e \in EntryNodes \cup Samples(graph), no_atoms \in BOOLEAN, k \in Orders :
          GetSample(e, no_atoms, k)
    \/ \E e \in Samples(graph), k \in Orders : GetSystemFromSample(e, k)

SpecLoaded == InitLoaded /\ [][NextLoaded]_vars

----------------------------------------------------------------------------
(* Samples and their defects: structures are encoded one after another and  *)
(* grain boundaries and vacancies are added in between, with and without    *)
(* names.                                                                    *)

LayerRecord == Record(CubicCell, <<AtomAl>>)
LayerStructArgs == {<<FALSE, None>>, <<TRUE, None>>}
LayerGbArgs == { <<GbDict(StrV("Twist")), None>>, <<GbDict(StrV("Twist")), StrV("GB")>>,
                 <<GbDict(StrV("Tilt")), StrV("GB")>> }
LayerVacancyArgs == {<<None, None>>, <<IntV(2), StrV("GB")>>}

NextDefects ==
    \/ \E a \in LayerStructArgs : AddStructureToGraph(LayerRecord, a[1], a[2])
    \/ CreateGraph(TRUE, StrV("01"))
    \/ \E a \in LayerGbArgs : AddGb(a[1], a[2])
    \/ \E a \in LayerVacancyArgs : AddVacancy(FloatV(100), a[1], a[2])

SpecDefects == Init /\ [][NextDefects]_vars

----------------------------------------------------------------------------
(* RDFGraph.add called on its own, with triples of every kind of object.    *)

Add(triple) ==
    /\ ncalls < MaxCalls
    /\ Commit(add(Self(0), triple), "add", <<triple>>)

NamedNode(label) == [kind |-> "BNode", id |-> label]

AddObjects ==
    { NamedNode("y"), NamedNode("None"), CMSO("CrystalStructure"), URIRef("None"),
      Literal(StrV("bcc"), "string"), Literal(StrV("None"), "string"),
      Literal(None, "string"), Literal(IntV(0), "integer"), Literal(None, "integer") }

AddInputs ==
    {<<s, p, o>> : s \in {NamedNode("x"), NamedNode("y")},
                   p \in {CMSO("hasAltName")}, o \in AddObjects}

NextAdd == \E t \in AddInputs : Add(t)

SpecAdd == Init /\ [][NextAdd]_vars

----------------------------------------------------------------------------
(* Properties *)

\* a literal whose decoded value is null
NullLiteral(o) == o.kind = "Literal" /\ o.value = None

\* C1: no store ever holds a triple whose object is a literal carrying a
\* null value: not the object's store after any sequence of encodings and
\* defect insertions, and not the sub-store an extraction builds from it.
C1_NoNullLiteral ==
    /\ \A t \in graph : ~NullLiteral(t[3])
    /\ sgraph.kind = "RDFGraph" => \A t \in sgraph.graph : ~NullLiteral(t[3])

\* a dictionary without an atom count was encoded, a grain boundary without
\* sigma was added to it, and the sample was extracted
C1_Witness ==
    /\ outcome.op = "get_sample"
    /\ outcome.exc = NoExc
    /\ sysdict = Without(BaseRecord, "NumberOfAtoms")
    /\ \E t \in sgraph.graph : t[2] = CMSO("hasVolume")
    /\ \E t \in sgraph.graph : t[2] = CMSO("hasDefect")
    /\ ~ \E t \in graph : t[2] \in {CMSO("hasNumberOfAtoms"), PLDO("hasSigmaValue")}

\* the label of a node begins with the prefix
HasPrefix(label, prefix) ==
    Len(label) >= Len(prefix) /\ SubSeq(label, 1, Len(prefix)) = prefix

\* the nodes the last call created
Created == {bnodes[k] : k \in (outcome.mark + 1)..Len(bnodes)}

\* C10: in named mode every node an encoding creates carries a label that
\* begins with the sample index followed by an underscore.
C10_LabelsBeginWithIndex ==
    (outcome.op = "create_graph" /\ outcome.args[1] = TRUE)
    => \A n \in Created : HasPrefix(n.id, PyStr(outcome.args[2]) \o "_")

\* the object after encoding the dictionary r into the empty store
Encoding(r, names, name_index) ==
    create_graph([EmptyState EXCEPT !.sysdict = r], names, name_index)

\* the store is the complete encoding of the processed dictionary
EncodedIntact ==
    \E a \in CodecArgs :
        /\ Encoding(sysdict, a[1], a[2]).exc = NoExc
        /\ Encoding(sysdict, a[1], a[2]).graph = graph

\* the nodes of a class
NodesOf(g, class) == {t[1] : t \in Triples(g, <<None, RDF_type, CMSO(class)>>)}

\* the triples of the encoding full that carry the values of a field:
\* subjects and predicates
FieldSubjects(full, f) ==
    CASE f \in {"ChemicalCompositionElement", "ChemicalCompositionRatio"} ->
            NodesOf(full.graph, "ChemicalComposition")
      [] f = "CellVolume" -> NodesOf(full.graph, "SimulationCell")
      [] f = "NumberOfAtoms" -> NodesOf(full.graph, "AtomicScaleSample")
      [] f \in {"SimulationCellLengthX", "SimulationCellLengthY", "SimulationCellLengthZ"} ->
            NodesOf(full.graph, "SimulationCellLength")
      [] f = "SimulationCellVectorA" -> {full.bnodes[6]}
      [] f = "SimulationCellVectorB" -> {full.bnodes[7]}
      [] f = "SimulationCellVectorC" -> {full.bnodes[8]}
      [] f \in {"SimulationCellAngleAlpha", "SimulationCellAngleBeta",
                "SimulationCellAngleGamma"} -> NodesOf(full.graph, "SimulationCellAngle")
      [] f = "CrystalStructureName" -> NodesOf(full.graph, "CrystalStructure")
      [] f \in {"SpaceGroupSymbol", "SpaceGroupNumber"} -> NodesOf(full.graph, "SpaceGroup")
      [] f = "BravaisLattice" -> NodesOf(full.graph, "BravaisLattice")
      [] f = "LatticeParameter" -> NodesOf(full.graph, "LatticeParameter")
      [] f = "Positions" -> NodesOf(full.graph, "PositionVector")
      [] f = "Element" -> NodesOf(full.graph, "Element")
      [] f = "Coordination" -> NodesOf(full.graph, "Atom")

FieldPredicates(f) ==
    CASE f \in {"ChemicalCompositionElement", "ChemicalCompositionRatio"} ->
            {CMSO("hasElementRatio")}
      [] f = "CellVolume" -> {CMSO("hasVolume")}
      [] f = "NumberOfAtoms" -> {CMSO("hasNumberOfAtoms")}
      [] f = "SimulationCellLengthX" -> {CMSO("hasLength_x")}
      [] f = "SimulationCellLengthY" -> {CMSO("hasLength_y")}
      [] f = "SimulationCellLengthZ" -> {CMSO("hasLength_z")}
      [] f \in {"SimulationCellVectorA", "SimulationCellVectorB", "SimulationCellVectorC",
                "Positions"} ->
            {CMSO("hasComponent_x"), CMSO("hasComponent_y"), CMSO("hasComponent_z")}
      [] f = "SimulationCellAngleAlpha" -> {CMSO("hasAngle_alpha")}
      [] f = "SimulationCellAngleBeta" -> {CMSO("hasAngle_beta")}
      [] f = "SimulationCellAngleGamma" -> {CMSO("hasAngle_gamma")}
      [] f = "CrystalStructureName" -> {CMSO("hasAltName")}
      [] f = "SpaceGroupSymbol" -> {CMSO("hasSpaceGroupSymbol")}
      [] f = "SpaceGroupNumber" -> {CMSO("hasSpaceGroupNumber")}
      [] f = "BravaisLattice" -> {CMSO("hasLatticeSystem")}
      [] f = "LatticeParameter" ->
            {CMSO("hasLength_x"), CMSO("hasLength_y"), CMSO("hasLength_z")}
      [] f = "Element" -> {CMSO("hasSymbol")}
      [] f = "Coordination" -> {CMSO("hasCoordinationNumber")}

\* the encoding full without the triples of the field
FullMinus(full, f) ==
    {t \in full.graph : ~(t[1] \in FieldSubjects(full, f) /\ t[2] \in FieldPredicates(f))}

\* C2: for every field of the dictionary, encoding into the empty store a
\* dictionary in which that field is absent (its key missing, or holding no
\* value) raises nothing and inserts exactly the triples that encoding the
\* fully populated dictionary inserts, less the triples of that field.
C2_AbsentFieldSkipped ==
    \A f \in Fields :
        (/\ outcome.op = "create_graph"
         /\ outcome.mark = 0
         /\ outcome.pre.graph = {}
         /\ sysdict \in {Without(BaseRecord, f), Lacking(BaseRecord, f)})
        => /\ outcome.exc = NoExc
           /\ graph = FullMinus(Encoding(BaseRecord, outcome.args[1], outcome.args[2]), f)

\* the cell matrix of a dictionary: rows A, B, C
CellOf(r) ==
    << r.d["SimulationCellVectorA"].l, r.d["SimulationCellVectorB"].l,
       r.d["SimulationCellVectorC"].l >>

\* the dictionary has its three cell vectors
HasCell(r) ==
    /\ r.kind = "dict"
    /\ \A f \in {"SimulationCellVectorA", "SimulationCellVectorB", "SimulationCellVectorC"} :
          f \in DOMAIN r.d /\ r.d[f].kind = "list"

\* C3: decoding the sample of a dictionary with cell vectors A, B, C that
\* was encoded into the empty store yields a cell matrix whose rows are
\* exactly A, B and C, in that order.
C3_CellRoundTrip ==
    (/\ outcome.op = "get_system_from_sample"
     /\ HasCell(sysdict)
     /\ EncodedIntact)
    => /\ outcome.exc = NoExc
       /\ outcome.ret.box = CellOf(sysdict)

\* the atoms of a dictionary: <<species, position>> pairs
AtomsOf(r) ==
    [k \in 1..Len(r.d["Positions"].l) |->
        <<r.d["Element"].l[k], r.d["Positions"].l[k].l>>]

\* the dictionary has at least one atom, each with species and position
HasAtoms(r) ==
    /\ r.kind = "dict"
    /\ \A f \in {"Positions", "Element", "Coordination"} :
          f \in DOMAIN r.d /\ r.d[f].kind = "list"
    /\ Len(r.d["Positions"].l) >= 1

\* C4: decoding the sample of a dictionary with at least one atom that was
\* encoded into the empty store yields position and species lists of equal
\* length, entry k of both belonging to the same atom, and the multiset of
\* (species, position) pairs equal to that of the dictionary.
C4_AtomsRoundTrip ==
    (/\ outcome.op = "get_system_from_sample"
     /\ HasAtoms(sysdict)
     /\ EncodedIntact)
    => /\ outcome.exc = NoExc
       /\ Len(outcome.ret.positions) = Len(outcome.ret.species)
       /\ Len(outcome.ret.species) = Len(AtomsOf(sysdict))
       /\ \E perm \in Permutations(1..Len(AtomsOf(sysdict))) :
             \A k \in 1..Len(AtomsOf(sysdict)) :
                <<outcome.ret.species[k], outcome.ret.positions[k]>>
                    = AtomsOf(sysdict)[perm[k]]

\* two different atoms came back in the other order
C4_Witness ==
    /\ outcome.op = "get_system_from_sample"
    /\ outcome.exc = NoExc
    /\ EncodedIntact
    /\ sysdict.d["Element"] = ListV(<<StrV("Al"), StrV("Fe")>>)
    /\ outcome.ret.species = <<StrV("Fe"), StrV("Al")>>
    /\ outcome.ret.positions = <<AtomFe.pos.l, AtomAl.pos.l>>

\* C9: encoding a dictionary into the empty store in named mode and in
\* anonymous mode gives the same store up to a one-to-one renaming of the
\* nodes: the named labels are pairwise distinct and the k-th anonymous node
\* stands where the k-th named node does.
C9_ModesIsomorphic ==
    (/\ outcome.op = "create_graph"
     /\ outcome.mark = 0
     /\ outcome.pre.graph = {}
     /\ outcome.args[1] = TRUE)
    => LET anon == Encoding(sysdict, FALSE, outcome.args[2])
           Ren(x) == IF x.kind = "BNode"
                     THEN bnodes[CHOOSE k \in 1..Len(bnodes) : anon.bnodes[k] = x]
                     ELSE x
       IN /\ Len(anon.bnodes) = Len(bnodes)
          /\ \A i, j \in 1..Len(bnodes) : bnodes[i] = bnodes[j] => i = j
          /\ anon.exc = outcome.exc
          /\ {<<Ren(t[1]), t[2], Ren(t[3])>> : t \in anon.graph} = graph

\* a fully populated dictionary was encoded in named mode
C9_Witness ==
    /\ outcome.op = "create_graph"
    /\ outcome.mark = 0
    /\ outcome.pre.graph = {}
    /\ outcome.args[1] = TRUE
    /\ outcome.exc = NoExc
    /\ sysdict = BaseRecord
    /\ Len(bnodes) > 15

\* the nodes reachable from the nodes S along the triples of g
RECURSIVE ReachFrom(_, _)
ReachFrom(g, S) ==
    LET T == S \cup {t[3] : t \in {u \in g : u[1] \in S}}
    IN IF T = S THEN S ELSE ReachFrom(g, T)

\* no node of g reaches itself
Acyclic(g) == \A t \in g : t[1] \notin ReachFrom(g, {t[3]})

\* C5: extraction terminates for every finite store and every entry node,
\* stores with a cycle among the reachable nodes included: the traversal
\* never runs away into unbounded recursion.
C5_ExtractionTerminates ==
    outcome.op = "get_sample" => outcome.exc # "RecursionError"

\* C6: on a store without cycles, extraction from an entry node builds the
\* sub-store of exactly the triples whose subject is reachable from the
\* entry: every such triple and no other.
C6_ExactlyReachable ==
    (outcome.op = "get_sample" /\ Acyclic(graph))
    => /\ sgraph.kind = "RDFGraph"
       /\ sgraph.graph = {t \in graph : t[1] \in ReachFrom(graph, {outcome.args[1]})}
       /\ outcome.exc # "RecursionError"

\* a diamond below the entry, and a triple out of its reach left behind
C6_Witness ==
    /\ outcome.op = "get_sample"
    /\ outcome.exc = NoExc
    /\ outcome.args[1] = NodeA
    /\ Acyclic(graph)
    /\ {<<NodeA, LinkP, NodeB>>, <<NodeA, LinkP, NodeC>>, <<NodeB, LinkP, NodeD>>,
        <<NodeC, LinkP, NodeD>>, <<NodeD, LinkP, Literal(StrV("v"), "string")>>}
          \subseteq sgraph.graph
    /\ <<NodeE, LinkP, Literal(StrV("w"), "string")>> \in graph \ sgraph.graph

\* C7: extraction (get_sample returning the sub-store) from an entry node
\* that is the subject of no triple returns an empty new store and raises
\* nothing, whatever an earlier extraction left in sgraph.
C7_StrangerGivesEmptyStore ==
    (/\ outcome.op = "get_sample"
     /\ outcome.args[2] = FALSE
     /\ Triples(graph, <<outcome.args[1], None, None>>) = {})
    => /\ outcome.exc = NoExc
       /\ outcome.ret = RDFGraphObj({})
       /\ sgraph = RDFGraphObj({})

\* an earlier extraction had left triples in sgraph
C7_Witness ==
    /\ outcome.op = "get_sample"
    /\ outcome.args[2] = FALSE
    /\ Triples(graph, <<outcome.args[1], None, None>>) = {}
    /\ outcome.pre.sgraph.kind = "RDFGraph"
    /\ outcome.pre.sgraph.graph # {}
    /\ outcome.ret = RDFGraphObj({})

\* the objects of the triples of g with this subject and predicate
Objects(g, subject, predicate) == {t[3] : t \in Triples(g, <<subject, predicate, None>>)}

\* the atom lacks an edge or a literal the decoder needs: no element or no
\* element with a symbol, no position vector or none with all three components
LacksRequired(g, atom) ==
    \/ \A e \in Objects(g, atom, CMSO("hasElement")) :
          Objects(g, e, CMSO("hasSymbol")) = {}
    \/ \A v \in Objects(g, atom, CMSO("hasPositionVector")) :
          \E c \in {"hasComponent_x", "hasComponent_y", "hasComponent_z"} :
             Objects(g, v, CMSO(c)) = {}

\* C8: decoding a sample one of whose atoms lacks a required edge or literal
\* (its element, the element's symbol, its position vector, or a component
\* of the position) ends in an error; it never returns a structure.
C8_DecodeAbortsOnMissing ==
    (/\ outcome.op = "get_system_from_sample"
     /\ \E atom \in Objects(graph, outcome.args[1], CMSO("hasAtom")) :
           LacksRequired(graph, atom))
    => /\ outcome.exc # NoExc
       /\ outcome.ret = None

\* a sample whose only damage is a lost symbol was decoded
C8_Witness ==
    /\ outcome.op = "get_system_from_sample"
    /\ outcome.exc = "AttributeError"
    /\ \E t \in EncodedStore : t[2] = CMSO("hasSymbol") /\ graph = EncodedStore \ {t}

\* the nodes of a store: the subjects and the node objects of its triples
NodesIn(g) == {t[1] : t \in g} \cup {t[3] : t \in {u \in g : u[3].kind = "BNode"}}

\* the boundary class of each tag of the enumeration
BoundaryClasses ==
    { <<None, "GrainBoundary">>, <<StrV("Twist"), "TwistBoundary">>,
      <<StrV("Tilt"), "TiltBoundary">>, <<StrV("Symmetric Tilt"), "SymmetricTiltBoundary">>,
      <<StrV("Mixed"), "MixedBoundary">> }

\* the node has a child along the edge that carries the class and the literal
HasChild(g, node, edge, class, predicate, value) ==
    \E c \in Objects(g, node, PLDO(edge)) :
        /\ <<c, RDF_type, PLDO(class)>> \in g
        /\ \E o \in Objects(g, c, PLDO(predicate)) : o.kind = "Literal" /\ o.value = value

\* C11: add_gb on an encoded Material, creating a new defect node, raises
\* nothing; the defect node carries exactly one rdf:type triple, of the
\* matching boundary class, when the tag is one of None, Twist, Tilt,
\* Symmetric Tilt, Mixed, and no type triple for any other tag; in both
\* cases the hasDefect edge from the Material, the sigma value (when the
\* descriptor has one), the plane, the rotation axis and the misorientation
\* angle are inserted.
C11_VariantDispatch ==
    (/\ outcome.op = "add_gb"
     /\ material # None
     /\ bnodes[outcome.mark + 1] \notin NodesIn(outcome.pre.graph))
    => LET d == bnodes[outcome.mark + 1]
           gb == outcome.args[1]
       IN /\ outcome.exc = NoExc
          /\ {t \in graph : t[1] = d /\ t[2] = RDF_type}
                = {<<d, RDF_type, PLDO(bc[2])>> : bc \in {x \in BoundaryClasses :
                                                          x[1] = gb["GBType"]}}
          /\ <<material, CMSO("hasDefect"), d>> \in graph
          /\ gb["sigma"] # None
                => <<d, PLDO("hasSigmaValue"), Literal(gb["sigma"], "integer")>> \in graph
          /\ HasChild(graph, d, "hasGBPlane", "GrainBoundaryPlane", "hasMillerIndices",
                      gb["GBPlane"])
          /\ HasChild(graph, d, "hasRotationAxis", "RotationAxis", "hasComponentZ",
                      gb["RotationAxis"].l[3])
          /\ HasChild(graph, d, "hasMisorientationAngle", "MisorientationAngle",
                      "hasAngle", gb["MisorientationAngle"])

\* a grain boundary with a tag outside the enumeration was added
C11_Witness ==
    /\ outcome.op = "add_gb"
    /\ outcome.exc = NoExc
    /\ material # None
    /\ outcome.args[1]["GBType"] = StrV("SymmetricTilt")
    /\ <<material, CMSO("hasDefect"), bnodes[outcome.mark + 1]>> \in graph
    /\ ~ \E t \in graph : t[1] = bnodes[outcome.mark + 1] /\ t[2] = RDF_type

\* the node-to-node edges of a store
Edges(g) == {t \in g : t[3].kind = "BNode"}

\* C12: after any sequence of encodings, named or anonymous, and of add_gb
\* and add_vacancy calls, named or not, the node-to-node edges of the store
\* form a forest rooted at the Sample nodes: a Sample has no incoming edge,
\* every other node has exactly one, and no node reaches itself.
C12_Forest ==
    /\ \A n \in Samples(graph) : {t \in Edges(graph) : t[3] = n} = {}
    /\ \A n \in NodesIn(graph) \ Samples(graph) :
          Cardinality({t \in Edges(graph) : t[3] = n}) = 1
    /\ Acyclic(Edges(graph))

\* C13: add_gb or add_vacancy, called after samples were encoded and
\* creating a new defect node, attaches that node by one hasDefect edge to
\* the Material of the sample encoded last and to nothing else, keeps every
\* triple that was in the store, and adds no triple whose subject is a node
\* of an earlier sample.
C13_DefectLayered ==
    (/\ outcome.op \in {"add_gb", "add_vacancy"}
     /\ material # None
     /\ bnodes[outcome.mark + 1] \notin NodesIn(outcome.pre.graph))
    => LET d == bnodes[outcome.mark + 1]
           earlier == ReachFrom(outcome.pre.graph, Samples(outcome.pre.graph) \ {sample})
       IN /\ outcome.pre.graph \subseteq graph
          /\ <<sample, CMSO("hasMaterial"), material>> \in graph
          /\ {t \in graph : t[3] = d} = {<<material, CMSO("hasDefect"), d>>}
          /\ \A t \in graph \ outcome.pre.graph :
                /\ t[1] \in Created \cup {material}
                /\ t[1] = material => t = <<material, CMSO("hasDefect"), d>>
                /\ t[1] \notin earlier

\* a defect was added to the second of two samples, the first having one too
C13_Witness ==
    /\ outcome.op \in {"add_gb", "add_vacancy"}
    /\ outcome.exc = NoExc
    /\ Cardinality(Samples(outcome.pre.graph)) = 2
    /\ bnodes[outcome.mark + 1] \notin NodesIn(outcome.pre.graph)
    /\ <<material, CMSO("hasDefect"), bnodes[outcome.mark + 1]>> \in graph
    /\ \E m \in NodesOf(graph, "CrystallineMaterial") \ {material} :
          Objects(outcome.pre.graph, m, CMSO("hasDefect")) # {}

\* C14: add_structure_to_graph in named mode without a name_index takes an
\* index no sample of the store has: the call creates a new Sample root, so
\* that n_samples grows by exactly one, and none of the nodes it creates is
\* a node the store already had.
C14_FreshDefaultIndex ==
    (/\ outcome.op = "add_structure_to_graph"
     /\ outcome.args[2] = TRUE
     /\ outcome.args[3] = None)
    => /\ n_samples(graph) = n_samples(outcome.pre.graph) + 1
       /\ Created \cap NodesIn(outcome.pre.graph) = {}

\* the triples of g whose subject is reachable from the node
SubStore(g, node) == {t \in g : t[1] \in ReachFrom(g, {node})}

\* C15: in a store of several samples, get_system_from_sample(s) builds its
\* result from the triples reachable from s only: it returns, or raises,
\* what decoding the sub-store of s alone does, also when s has no
\* hasSimulationCell edge.
C15_DecodeLocal ==
    outcome.op = "get_system_from_sample"
    => \E k \in Orders :
          LET alone == get_system_from_sample(
                           [Self(k) EXCEPT !.graph = SubStore(graph, outcome.args[1])],
                           outcome.args[1])
          IN alone.exc = outcome.exc /\ alone.ret = outcome.ret

\* C16: add leaves out only the triples whose object is a literal with a
\* null value: a triple whose object is a node, whatever its label, or a
\* literal with a value, the string "None" included, is in the store after
\* the call, and the call raises nothing.
C16_DropsOnlyNull ==
    (/\ outcome.op = "add"
     /\ ~NullLiteral(outcome.args[1][3]))
    => /\ outcome.exc = NoExc
       /\ outcome.args[1] \in graph

=============================================================================
